---- MODULE Spec2Model ----
(***************************************************************************)
(* Single-fetch data strategy of the Remix client runtime                  *)
(* (getSingleFetchDataStrategy and its helpers) as a state machine.        *)
(*                                                                         *)
(* One invocation of the data strategy is a "navigation": it owns the      *)
(* closure variable singleFetchPromise and hands every matched route a     *)
(* delegation function () => singleFetch(route.id).  The suspension points *)
(* of the code (await createRequestInit, await fetch, await decode, await  *)
(* singleFetchPromise) are the boundaries between the actions.             *)
(***************************************************************************)
EXTENDS Integers, Sequences, FiniteSets, TLC

(***************************************************************************)
(* Bounds of the model.                                                    *)
(***************************************************************************)
MaxNavs == 1
MaxCalls == 2
MaxRequests == 2

VARIABLES
    manifest,       \* manifest.routes: route id -> [hasLoader]
    routeModules,   \* route id -> [shouldRevalidate], loaded modules only
    navs,           \* invocations of the data strategy, in order
    calls,          \* invocations of singleFetch(routeId), in order
    fetches,        \* invocations of fetchAndDecode, by the call that made them
    worker          \* invocations of fetch of the Cloudflare worker, in order

vars == <<manifest, routeModules, navs, calls, fetches, worker>>

----------------------------------------------------------------------------
(***************************************************************************)
(* Values on the wire and after decoding.                                  *)
(***************************************************************************)
Plain(n) == [type |-> "plain", v |-> n]

\* a value the stream tags as "ErrorResponse"; internal is the JSON value of
\* the field: "true", "false", "1" (truthy, not true) or "undefined" (absent)
WireErrorResponse(status, statusText, data, internal) ==
    [type |-> "ErrorResponse", status |-> status, statusText |-> statusText,
     data |-> data, internal |-> internal]

ErrorResponseImpl(status, statusText, data, internal) ==
    [type |-> "ErrorResponseImpl", status |-> status,
     statusText |-> statusText, data |-> data, internal |-> internal]

\* variant: internal is taken as set whenever the decoded field is truthy
DecodePluginTruthy(value) ==
    IF value.type = "ErrorResponse"
    THEN ErrorResponseImpl(value.status, value.statusText, value.data,
                           value.internal \notin {"false", "undefined"})
    ELSE value

\* the decode plugin of fetchAndDecode
DecodePlugin(value) ==
    IF value.type = "ErrorResponse"
    THEN ErrorResponseImpl(value.status, value.statusText, value.data,
                           value.internal = "true")
    ELSE value

\* keys of a result that hold arbitrary (possibly tagged) values
ValueKeys == {"data", "error"}

\* decode of one SingleFetchResult: an object with the keys it was sent with
DecodeResult(result) ==
    [k \in DOMAIN result |->
        IF k \in ValueKeys THEN DecodePlugin(result[k]) ELSE result[k]]

\* decode of a SingleFetchResults object
DecodeResults(results) ==
    [id \in DOMAIN results |-> DecodeResult(results[id])]

----------------------------------------------------------------------------
(***************************************************************************)
(* unwrapSingleFetchResult: the outcome of one call.                       *)
(***************************************************************************)
Return(value) == [kind |-> "return", value |-> value]
Throw(error) == [kind |-> "throw", error |-> error]
ReturnNull == [kind |-> "null"]
Pending == [kind |-> "pending"]

\* redirect(url, {status, headers}) of @remix-run/router: a Response with
\* the Location header and the given headers
Redirect(location, status, headers) ==
    [kind |-> "redirect", location |-> location, status |-> status,
     headers |-> headers]

NoActionResponse(routeId) ==
    [type |-> "Error", message |-> "No action response found for routeId",
     routeId |-> routeId]

\* variant: either flag sets both headers
RedirectHeadersBoth(result) ==
    IF result.revalidate \/ result.reload
    THEN {"X-Remix-Revalidate", "X-Remix-Reload-Document"}
    ELSE {}

RedirectHeaders(result) ==
    (IF result.revalidate THEN {"X-Remix-Revalidate"} ELSE {})
        \cup (IF result.reload THEN {"X-Remix-Reload-Document"} ELSE {})

\* variant: a result without data, error and redirect yields undefined
unwrapNoThrow(result, routeId) ==
    IF "error" \in DOMAIN result THEN Throw(result.error)
    ELSE IF "redirect" \in DOMAIN result
         THEN Redirect(result.redirect, result.status, RedirectHeaders(result))
    ELSE IF "data" \in DOMAIN result THEN Return(result.data)
    ELSE ReturnNull

unwrapSingleFetchResult(result, routeId) ==
    IF "error" \in DOMAIN result THEN Throw(result.error)
    ELSE IF "redirect" \in DOMAIN result
         THEN Redirect(result.redirect, result.status, RedirectHeaders(result))
    ELSE IF "data" \in DOMAIN result THEN Return(result.data)
    ELSE Throw(NoActionResponse(routeId))

----------------------------------------------------------------------------
(***************************************************************************)
(* URLs.  An href is a record of origin, pathname and the raw query, a     *)
(* sequence of parameters [name, value, eq]; eq tells whether the raw text *)
(* of the parameter has an "=" ("?index" against "?index=").               *)
(* url.searchParams is the list of name/value pairs parsed from the raw    *)
(* query; every mutation of it writes the list back in serialized form.    *)
(***************************************************************************)
Param(name, value, eq) == [name |-> name, value |-> value, eq |-> eq]

\* URLSearchParams of a raw query: the name/value pairs
searchParams(url) ==
    [i \in 1..Len(url.query) |-> <<url.query[i].name, url.query[i].value>>]

\* the update steps of URLSearchParams: the list serialized as name=value
WithSearchParams(url, list) ==
    [url EXCEPT !.query =
        [i \in 1..Len(list) |-> Param(list[i][1], list[i][2], TRUE)]]

RECURSIVE SelectPairs(_, _, _)
\* the pairs of list whose name is (keep = TRUE) or is not (FALSE) name
SelectPairs(list, name, keep) ==
    IF list = <<>> THEN <<>>
    ELSE IF (Head(list)[1] = name) = keep
         THEN <<Head(list)>> \o SelectPairs(Tail(list), name, keep)
         ELSE SelectPairs(Tail(list), name, keep)

\* searchParams.getAll(name)
getAll(list, name) ==
    LET sel == SelectPairs(list, name, TRUE)
    IN  [i \in 1..Len(sel) |-> sel[i][2]]

\* searchParams.delete(name)
delete(list, name) == SelectPairs(list, name, FALSE)

\* searchParams.append(name, value)
append(list, name, value) == list \o <<(<<name, value>>)>>

RECURSIVE SetFirst(_, _, _, _)
\* searchParams.set(name, value) on a list that has the name: the first pair
\* of that name takes the value, the others are removed
SetFirst(list, name, value, found) ==
    IF list = <<>> THEN <<>>
    ELSE IF Head(list)[1] = name
         THEN (IF found THEN <<>> ELSE <<(<<name, value>>)>>)
                  \o SetFirst(Tail(list), name, value, TRUE)
         ELSE <<Head(list)>> \o SetFirst(Tail(list), name, value, found)

\* searchParams.set(name, value)
set(list, name, value) ==
    IF \E i \in 1..Len(list) : list[i][1] = name
    THEN SetFirst(list, name, value, FALSE)
    ELSE append(list, name, value)

\* variant: every index value is kept, the empty ones too
KeepAll(values) == values

RECURSIVE KeepTruthy(_)
\* the loop of stripIndexParam that collects indexValuesToKeep
KeepTruthy(values) ==
    IF values = <<>> THEN <<>>
    ELSE IF Head(values) # ""
         THEN <<Head(values)>> \o KeepTruthy(Tail(values))
         ELSE KeepTruthy(Tail(values))

RECURSIVE AppendAll(_, _, _)
AppendAll(list, name, values) ==
    IF values = <<>> THEN list
    ELSE AppendAll(append(list, name, Head(values)), name, Tail(values))

stripIndexParam(url) ==
    LET indexValues == getAll(searchParams(url), "index")
        deleted == delete(searchParams(url), "index")
        indexValuesToKeep == KeepTruthy(indexValues)
    IN  WithSearchParams(url, AppendAll(deleted, "index", indexValuesToKeep))

RECURSIVE Join(_)
\* Array.prototype.join(",")
Join(arr) ==
    IF arr = <<>> THEN ""
    ELSE IF Len(arr) = 1 THEN Head(arr)
    ELSE Head(arr) \o "," \o Join(Tail(arr))

RECURSIVE FilterHasLoader(_, _)
FilterHasLoader(mf, arr) ==
    IF arr = <<>> THEN <<>>
    ELSE IF mf[Head(arr)].hasLoader
         THEN <<Head(arr)>> \o FilterHasLoader(mf, Tail(arr))
         ELSE FilterHasLoader(mf, Tail(arr))

genRouteIds(mf, arr) == Join(FilterHasLoader(mf, arr))

RECURSIVE ShouldLoadIds(_)
\* matches.filter((m) => m.shouldLoad).map((m) => m.route.id)
ShouldLoadIds(ms) ==
    IF ms = <<>> THEN <<>>
    ELSE IF Head(ms).shouldLoad
         THEN <<Head(ms).id>> \o ShouldLoadIds(Tail(ms))
         ELSE ShouldLoadIds(Tail(ms))

\* matches.map((m) => m.route.id)
MatchIds(ms) == [i \in 1..Len(ms) |-> ms[i].id]

\* matches.some((m) => routeModules[m.route.id]?.shouldRevalidate)
SomeShouldRevalidate(rm, ms) ==
    \E i \in 1..Len(ms) :
        /\ ms[i].id \in DOMAIN rm
        /\ rm[ms[i].id].shouldRevalidate

addRevalidationParam(mf, rm, ms, url) ==
    IF SomeShouldRevalidate(rm, ms)
    THEN LET matchedIds == genRouteIds(mf, MatchIds(ms))
             loadIds == genRouteIds(mf, ShouldLoadIds(ms))
         IN  IF matchedIds # loadIds
             THEN WithSearchParams(url,
                      set(searchParams(url), "_routes", loadIds))
             ELSE url
    ELSE url

\* the pathname setter of URL: a path of an http(s) URL starts with "/"
SetPathname(url, path) ==
    [url EXCEPT !.pathname = IF path = "_root.data" THEN "/" \o path ELSE path]

\* variant: ".data" is appended to every path, the root path too
singleFetchUrlNoSentinel(reqUrl) ==
    SetPathname(reqUrl, reqUrl.pathname \o ".data")

singleFetchUrl(reqUrl) ==
    SetPathname(reqUrl,
        (IF reqUrl.pathname = "/" THEN "_root" ELSE reqUrl.pathname)
            \o ".data")

----------------------------------------------------------------------------
(***************************************************************************)
(* Inputs of the model: routes, navigations and server responses.          *)
(***************************************************************************)
RouteIds == {"root", "routes/a"}

Origin == "https://remix.run"

Url(pathname, query) ==
    [origin |-> Origin, pathname |-> pathname, query |-> query]

Match(id, shouldLoad) == [id |-> id, shouldLoad |-> shouldLoad]

Request(method, url) == [method |-> method, url |-> url]

\* the arguments { request, matches } of the data strategy: a revalidation
\* of "/a?index&q=1" that leaves the root out, and a submission to "/"
NavArgs ==
    { [request |-> Request("GET",
           Url("/a", <<Param("index", "", FALSE), Param("q", "1", TRUE)>>)),
       matches |-> <<Match("root", FALSE), Match("routes/a", TRUE)>>],
      [request |-> Request("POST", Url("/", <<Param("index", "", FALSE)>>)),
       matches |-> <<Match("root", TRUE), Match("routes/a", TRUE)>>] }

\* manifest.routes and the loaded route modules
Manifests == { [id \in RouteIds |-> [hasLoader |-> TRUE]] }

RouteModuleSets ==
    { [id \in RouteIds |-> [shouldRevalidate |-> id = "root"]] }

\* SingleFetchResult objects as the server encodes them
DataResult(value) == [data |-> value]
ErrorResult(error) == [error |-> error]
RedirectResult(location, status, revalidate, reload) ==
    [redirect |-> location, status |-> status, revalidate |-> revalidate,
     reload |-> reload]
EmptyResult == [k \in {} |-> TRUE]

\* the body of a response: the encoded top-level value
MapBody(results) == [top |-> "results", value |-> results]
ResultBody(result) == [top |-> "result", value |-> result]

\* bodies a loader request is answered with
LoaderBodies ==
    { MapBody([id \in RouteIds |->
          IF id = "root" THEN ErrorResult(Plain(2))
          ELSE DataResult(Plain(1))]),
      MapBody([id \in RouteIds |->
          IF id = "root" THEN RedirectResult("/login", 302, TRUE, FALSE)
          ELSE ErrorResult(WireErrorResponse(404, "Not Found", 3, "1"))]),
      MapBody([id \in {"root"} |-> EmptyResult]) }

\* bodies an action request is answered with
ActionBodies ==
    { ResultBody(DataResult(Plain(1))),
      ResultBody(ErrorResult(WireErrorResponse(400, "Bad Request", 3, "true"))),
      ResultBody(EmptyResult) }

\* res.headers.get("Content-Type"): null, or the value as a sequence of
\* pieces of text
NoHeader == [present |-> FALSE, value |-> <<>>]
Header(value) == [present |-> TRUE, value |-> value]

ContentTypes ==
    { NoHeader,
      Header(<<"text/html", "; charset=utf-8">>),
      Header(<<"text/x-turbo", "; charset=utf-8">>) }

----------------------------------------------------------------------------
(***************************************************************************)
(* fetchAndDecode: one record of `fetches` per invocation, under the index *)
(* of the call of singleFetch that made the invocation.                    *)
(*   state "fetching"  suspended at await fetch(url, init)                 *)
(*         "decoding"  suspended at await decode(res.body, ...)            *)
(*         "settled"   returned decoded.value, or threw                    *)
(* The promise of an invocation is named by that index; a fulfilled        *)
(* promise holds the decoded object, whose identity is that index too.     *)
(***************************************************************************)
PromisePending == [status |-> "pending"]
Fulfilled(value) == [status |-> "fulfilled", value |-> value]
Rejected(reason) == [status |-> "rejected", reason |-> reason]

\* fetchAndDecode(url) without init
NoInit == [given |-> FALSE]

\* res of a fetch that has not resolved, and the body of one that was never
\* handed to decode
NoResponse == [received |-> FALSE]
NoBody == [top |-> "none"]

\* an invocation fetchAndDecode(url, init) of navigation n, suspended at
\* await fetch(url, init); contentType and body are those of res
NewFetch(n, url, init) ==
    [nav |-> n, url |-> url, init |-> init, state |-> "fetching",
     res |-> NoResponse, body |-> NoBody, promise |-> PromisePending]

Response(contentType) == [received |-> TRUE, contentType |-> contentType]

NetworkError == [type |-> "TypeError", message |-> "Failed to fetch"]
DecodeError == [type |-> "SyntaxError", message |-> "Unable to decode"]

\* invariant(value, message) of ./invariant: throws Error(message) unless
\* value is truthy
invariant(value, message) ==
    IF value THEN [ok |-> TRUE]
    ELSE [ok |-> FALSE, error |-> [type |-> "Error", message |-> message]]

\* variant: any Content-Type header passes
IsTurboAnyType(contentType) == contentType.present

\* res.headers.get("Content-Type")?.includes("text/x-turbo")
IsTurbo(contentType) ==
    /\ contentType.present
    /\ \E i \in 1..Len(contentType.value) :
           contentType.value[i] = "text/x-turbo"

\* decode(res.body, [plugin]) followed by decoded.value
Decode(body) ==
    IF body.top = "results" THEN DecodeResults(body.value)
    ELSE DecodeResult(body.value)

\* a promise that is no longer pending
Settled(promise) == promise.status # "pending"

----------------------------------------------------------------------------
(***************************************************************************)
(* The data strategy.                                                      *)
(***************************************************************************)
Init ==
    /\ manifest \in Manifests
    /\ routeModules \in RouteModuleSets
    /\ navs = <<>>
    /\ calls = <<>>
    /\ fetches = [c \in {} |-> NewFetch(0, Url("/", <<>>), NoInit)]
    /\ worker = <<>>

\* variant: the consolidated request is made when the strategy is invoked,
\* before any route has called singleFetch
DataStrategyEager(args) ==
    /\ Len(navs) < MaxNavs
    /\ LET n == Len(navs) + 1
           nav == [request |-> args.request, matches |-> args.matches,
                   singleFetchPromise |-> 0, assigned |-> 0]
       IN  IF args.request.method = "GET"
           THEN /\ navs' = Append(navs,
                      [nav EXCEPT !.singleFetchPromise = 0 - n,
                                  !.assigned = 1])
                /\ fetches' = fetches @@
                      ((0 - n) :> NewFetch(n,
                          singleFetchUrl(
                              addRevalidationParam(manifest, routeModules,
                                  args.matches,
                                  stripIndexParam(args.request.url))),
                          NoInit))
           ELSE /\ navs' = Append(navs, nav)
                /\ UNCHANGED fetches
    /\ UNCHANGED <<worker, manifest, routeModules, calls>>

\* the router invokes the data strategy for a navigation: a new closure
\* with singleFetchPromise undefined (0)
DataStrategy(args) ==
    /\ Len(navs) < MaxNavs
    /\ navs' = Append(navs, [request |-> args.request,
                             matches |-> args.matches,
                             singleFetchPromise |-> 0, assigned |-> 0])
    /\ UNCHANGED <<worker, manifest, routeModules, calls, fetches>>

\* the URL makeSingleFetchCall fetches
LoaderUrl(nav) ==
    singleFetchUrl(
        addRevalidationParam(manifest, routeModules, nav.matches,
                             stripIndexParam(nav.request.url)))

\* variant: the cell is set again once the promise it holds has settled
PromiseUnsetOrSettled(nav) ==
    \/ nav.singleFetchPromise = 0
    \/ Settled(fetches[nav.singleFetchPromise].promise)

\* variant: every caller makes its own call, the cell is not consulted
PromiseNeverReused(nav) == TRUE

\* variant: the cell is set again once the promise it holds has rejected
PromiseUnsetOrRejected(nav) ==
    \/ nav.singleFetchPromise = 0
    \/ fetches[nav.singleFetchPromise].promise.status = "rejected"

\* !singleFetchPromise
PromiseUnset(nav) == nav.singleFetchPromise = 0

\* an invocation singleFetch(routeId) in navigation n; promise is the promise
\* it awaits (0: none yet), late tells whether that promise had settled
\* before the invocation
NewCall(n, routeId, pc, promise, late) ==
    [nav |-> n, routeId |-> routeId, pc |-> pc, promise |-> promise,
     late |-> late, outcome |-> Pending]

\* m.route.id of the matches of a navigation
MatchedIds(nav) == { nav.matches[i].id : i \in DOMAIN nav.matches }

\* variant: the hint of the request names the calling route only
SingleFetchLoaderCallerOnly(n, routeId) ==
    /\ navs[n].request.method = "GET"
    /\ routeId \in MatchedIds(navs[n])
    /\ Len(calls) < MaxCalls
    /\ LET c == Len(calls) + 1
           own == SelectSeq(navs[n].matches, LAMBDA m : m.id = routeId)
       IN  /\ IF PromiseUnset(navs[n])
              THEN /\ fetches' = fetches @@
                         (c :> NewFetch(n,
                             LoaderUrl([navs[n] EXCEPT !.matches = own]),
                             NoInit))
                   /\ navs' = [navs EXCEPT ![n].singleFetchPromise = c,
                                           ![n].assigned = @ + 1]
              ELSE UNCHANGED <<fetches, navs>>
           /\ calls' = Append(calls,
                  NewCall(n, routeId, "await", navs'[n].singleFetchPromise,
                      Settled(fetches'[navs'[n].singleFetchPromise].promise)))
    /\ UNCHANGED <<worker, manifest, routeModules>>

\* variant: singleFetchPromise is one cell for all navigations, so a call
\* finds the promise an earlier navigation has left there
SingleFetchLoaderGlobal(n, routeId) ==
    /\ navs[n].request.method = "GET"
    /\ routeId \in MatchedIds(navs[n])
    /\ Len(calls) < MaxCalls
    /\ LET c == Len(calls) + 1
           held == { k \in DOMAIN navs : navs[k].singleFetchPromise # 0 }
       IN  /\ IF held = {}
              THEN /\ fetches' = fetches @@
                         (c :> NewFetch(n, LoaderUrl(navs[n]), NoInit))
                   /\ navs' = [navs EXCEPT ![n].singleFetchPromise = c,
                                           ![n].assigned = @ + 1]
              ELSE /\ UNCHANGED fetches
                   /\ navs' = [navs EXCEPT ![n].singleFetchPromise =
                          navs[CHOOSE k \in held : TRUE].singleFetchPromise]
           /\ calls' = Append(calls,
                  NewCall(n, routeId, "await", navs'[n].singleFetchPromise,
                      Settled(fetches'[navs'[n].singleFetchPromise].promise)))
    /\ UNCHANGED <<worker, manifest, routeModules>>

\* a route handler of a GET navigation calls singleFetch(routeId): up to
\* await singleFetchPromise, with makeSingleFetchCall up to await fetch(url)
SingleFetchLoader(n, routeId) ==
    /\ navs[n].request.method = "GET"
    /\ routeId \in MatchedIds(navs[n])
    /\ Len(calls) < MaxCalls
    /\ LET c == Len(calls) + 1
       IN  /\ IF PromiseUnset(navs[n])
              THEN /\ fetches' = fetches @@
                         (c :> NewFetch(n, LoaderUrl(navs[n]), NoInit))
                   /\ navs' = [navs EXCEPT ![n].singleFetchPromise = c,
                                           ![n].assigned = @ + 1]
              ELSE UNCHANGED <<fetches, navs>>
           /\ calls' = Append(calls,
                  NewCall(n, routeId, "await", navs'[n].singleFetchPromise,
                      Settled(fetches'[navs'[n].singleFetchPromise].promise)))
    /\ UNCHANGED <<worker, manifest, routeModules>>

\* a route handler of a non-GET navigation calls singleFetch(routeId): up to
\* await createRequestInit(request)
SingleFetchAction(n, routeId) ==
    /\ navs[n].request.method # "GET"
    /\ routeId \in MatchedIds(navs[n])
    /\ Len(calls) < MaxCalls
    /\ calls' = Append(calls, NewCall(n, routeId, "init", 0, FALSE))
    /\ UNCHANGED <<worker, manifest, routeModules, navs, fetches>>

\* createRequestInit(request) of ./data: the method (and the headers and
\* body) of the request, passed through
createRequestInit(request) == [given |-> TRUE, method |-> request.method]

\* variant: an action call latches onto the request another call of its
\* navigation has made
ActionFetchShared(c) ==
    /\ calls[c].pc = "init"
    /\ LET made == { d \in DOMAIN fetches : fetches[d].nav = calls[c].nav }
       IN  IF made = {}
           THEN /\ fetches' = fetches @@
                      (c :> NewFetch(calls[c].nav,
                          singleFetchUrl(navs[calls[c].nav].request.url),
                          createRequestInit(navs[calls[c].nav].request)))
                /\ calls' = [calls EXCEPT ![c].pc = "await",
                                          ![c].promise = c]
           ELSE /\ UNCHANGED fetches
                /\ calls' = [calls EXCEPT
                       ![c].pc = "await",
                       ![c].promise = CHOOSE d \in made : TRUE]
    /\ UNCHANGED <<worker, manifest, routeModules, navs>>

\* variant: the URL of an action request is normalised like a loader URL
ActionFetchNormalised(c) ==
    /\ calls[c].pc = "init"
    /\ fetches' = fetches @@
           (c :> NewFetch(calls[c].nav,
                     LoaderUrl(navs[calls[c].nav]),
                     createRequestInit(navs[calls[c].nav].request)))
    /\ calls' = [calls EXCEPT ![c].pc = "await", ![c].promise = c]
    /\ UNCHANGED <<worker, manifest, routeModules, navs>>

\* await createRequestInit(request) resolves: the call goes on to
\* fetchAndDecode(url, init), up to await fetch(url, init)
ActionFetch(c) ==
    /\ calls[c].pc = "init"
    /\ fetches' = fetches @@
           (c :> NewFetch(calls[c].nav,
                     singleFetchUrl(navs[calls[c].nav].request.url),
                     createRequestInit(navs[calls[c].nav].request)))
    /\ calls' = [calls EXCEPT ![c].pc = "await", ![c].promise = c]
    /\ UNCHANGED <<worker, manifest, routeModules, navs>>

\* fetch(url, init) rejects
FetchFails(f) ==
    /\ fetches[f].state = "fetching"
    /\ fetches' = [fetches EXCEPT ![f].state = "settled",
                                  ![f].promise = Rejected(NetworkError)]
    /\ UNCHANGED <<worker, manifest, routeModules, navs, calls>>

\* the bodies the server answers a request of navigation n with
Bodies(n) ==
    IF navs[n].request.method = "GET" THEN LoaderBodies ELSE ActionBodies

\* fetch(url, init) resolves to res: the invariant on the Content-Type, then
\* up to await decode(res.body, ...)
FetchResponds(f, res) ==
    /\ fetches[f].state = "fetching"
    /\ LET check == invariant(IsTurbo(res.contentType),
                              "Expected a text/x-turbo response")
       IN  fetches' =
               IF check.ok
               THEN [fetches EXCEPT ![f].state = "decoding",
                                    ![f].res = Response(res.contentType),
                                    ![f].body = res.body]
               ELSE [fetches EXCEPT ![f].state = "settled",
                                    ![f].res = Response(res.contentType),
                                    ![f].promise = Rejected(check.error)]
    /\ UNCHANGED <<worker, manifest, routeModules, navs, calls>>

\* decode resolves: fetchAndDecode returns decoded.value
DecodeResolves(f) ==
    /\ fetches[f].state = "decoding"
    /\ fetches' = [fetches EXCEPT
           ![f].state = "settled",
           ![f].promise = Fulfilled(Decode(fetches[f].body))]
    /\ UNCHANGED <<worker, manifest, routeModules, navs, calls>>

\* decode rejects (a stream that is not well formed)
DecodeRejects(f) ==
    /\ fetches[f].state = "decoding"
    /\ fetches' = [fetches EXCEPT ![f].state = "settled",
                                  ![f].promise = Rejected(DecodeError)]
    /\ UNCHANGED <<worker, manifest, routeModules, navs, calls>>

\* variant: a route without an entry is unwrapped like an empty result
LookUpStrict(results, routeId) ==
    IF routeId \in DOMAIN results
    THEN unwrapSingleFetchResult(results[routeId], routeId)
    ELSE unwrapSingleFetchResult(EmptyResult, routeId)

\* variant: an error of any route of the response is thrown to every caller
LookUpFailAll(results, routeId) ==
    IF \E id \in DOMAIN results : "error" \in DOMAIN results[id]
    THEN Throw(results[CHOOSE id \in DOMAIN results :
                          "error" \in DOMAIN results[id]].error)
    ELSE IF routeId \in DOMAIN results
         THEN unwrapSingleFetchResult(results[routeId], routeId)
         ELSE ReturnNull

\* results[routeId] !== undefined ? unwrapSingleFetchResult(...) : null
LookUp(results, routeId) ==
    IF routeId \in DOMAIN results
    THEN unwrapSingleFetchResult(results[routeId], routeId)
    ELSE ReturnNull

\* the outcome of a call whose awaited promise has settled
Outcome(call, promise) ==
    IF promise.status = "rejected" THEN Throw(promise.reason)
    ELSE IF navs[call.nav].request.method = "GET"
         THEN LookUp(promise.value, call.routeId)
         ELSE unwrapSingleFetchResult(promise.value, call.routeId)

\* variant: a call made after the promise has settled is never continued
ResumeOnlyEarly(c) ==
    /\ calls[c].pc = "await"
    /\ ~ calls[c].late
    /\ Settled(fetches[calls[c].promise].promise)
    /\ calls' = [calls EXCEPT
           ![c].pc = "done",
           ![c].outcome = Outcome(calls[c], fetches[calls[c].promise].promise)]
    /\ UNCHANGED <<worker, manifest, routeModules, navs, fetches>>

\* a call suspended at await singleFetchPromise (GET) or at
\* await fetchAndDecode(url, init) (non-GET) continues to its end
Resume(c) ==
    /\ calls[c].pc = "await"
    /\ Settled(fetches[calls[c].promise].promise)
    /\ calls' = [calls EXCEPT
           ![c].pc = "done",
           ![c].outcome = Outcome(calls[c], fetches[calls[c].promise].promise)]
    /\ UNCHANGED <<worker, manifest, routeModules, navs, fetches>>

Next ==
    \/ \E args \in NavArgs : DataStrategy(args)
    \/ \E n \in DOMAIN navs, routeId \in RouteIds :
           SingleFetchLoader(n, routeId)
    \/ \E n \in DOMAIN navs, routeId \in RouteIds :
           SingleFetchAction(n, routeId)
    \/ \E c \in DOMAIN calls : ActionFetch(c)
    \/ \E f \in DOMAIN fetches : FetchFails(f)
    \/ \E f \in DOMAIN fetches, ct \in ContentTypes :
           \E body \in Bodies(fetches[f].nav) :
               FetchResponds(f, [contentType |-> ct, body |-> body])
    \/ \E f \in DOMAIN fetches : DecodeResolves(f)
    \/ \E f \in DOMAIN fetches : DecodeRejects(f)
    \/ \E c \in DOMAIN calls : Resume(c)

Spec == Init /\ [][Next]_vars

----------------------------------------------------------------------------
(***************************************************************************)
(* Properties.                                                             *)
(***************************************************************************)
GetNavs == { n \in DOMAIN navs : navs[n].request.method = "GET" }
ActionNavs == { n \in DOMAIN navs : navs[n].request.method # "GET" }

\* the calls of singleFetch and the network calls made in navigation n
CallsOf(n) == { c \in DOMAIN calls : calls[c].nav = n }
FetchesOf(n) == { f \in DOMAIN fetches : fetches[f].nav = n }

\* the first call of singleFetch in navigation n
FirstCall(n) == CHOOSE c \in CallsOf(n) : \A d \in CallsOf(n) : c <= d

\* C1: in a GET navigation exactly one network call has been made as soon as
\* a route has called singleFetch, however many calls there are and whether
\* they came before or after the promise settled; the cell singleFetchPromise
\* was assigned once, at the first call, and still holds that promise.
C1_OneNetworkCall ==
    \A n \in GetNavs :
        IF CallsOf(n) = {}
        THEN navs[n].assigned = 0
        ELSE /\ Cardinality(FetchesOf(n)) = 1
             /\ navs[n].assigned = 1
             /\ navs[n].singleFetchPromise = FirstCall(n)

\* two calls in one GET navigation, the second made after the promise of
\* the first had settled, both finished
C1_Witness ==
    \E n \in GetNavs : \E c, d \in CallsOf(n) :
        /\ c # d
        /\ calls[d].late
        /\ calls[c].pc = "done"
        /\ calls[d].pc = "done"

\* the decoded object a finished call took its outcome from: the index of
\* the promise it awaited, when that promise was fulfilled
InstanceSeen(c) ==
    IF fetches[calls[c].promise].promise.status = "fulfilled"
    THEN calls[c].promise ELSE 0

\* C2: in a GET navigation all calls await the same promise, so all take
\* their outcome from the same decoded object; a call has finished only when
\* that promise has settled, that is after fetch and decode are complete.
C2_SameDecodedInstance ==
    \A n \in GetNavs : \A c, d \in CallsOf(n) :
        /\ calls[c].promise = calls[d].promise
        /\ calls[c].promise \in DOMAIN fetches
        /\ calls[c].pc = "done" =>
               /\ fetches[calls[c].promise].state = "settled"
               /\ Settled(fetches[calls[c].promise].promise)
        /\ (calls[c].pc = "done" /\ calls[d].pc = "done") =>
               InstanceSeen(c) = InstanceSeen(d)

\* calls of both routes of a GET navigation have finished on a decoded map
C2_Witness ==
    \E n \in GetNavs : \E c, d \in CallsOf(n) :
        /\ calls[c].routeId # calls[d].routeId
        /\ calls[c].pc = "done"
        /\ calls[d].pc = "done"
        /\ InstanceSeen(c) # 0

\* C3: a GET navigation makes no network call while no route has called
\* singleFetch; the call is made within the first invocation: whenever a
\* call of singleFetch exists, the request made by the first one does.
C3_LazyRequest ==
    \A n \in GetNavs :
        IF CallsOf(n) = {}
        THEN FetchesOf(n) = {} /\ navs[n].singleFetchPromise = 0
        ELSE /\ FirstCall(n) \in FetchesOf(n)
             /\ fetches[FirstCall(n)].init = NoInit

\* a GET navigation with one call, its request in flight
C3_Witness ==
    \E n \in GetNavs :
        /\ Cardinality(CallsOf(n)) = 1
        /\ FetchesOf(n) # {}
        /\ \A f \in FetchesOf(n) : fetches[f].state = "fetching"

\* the promise a call awaits, and whether the call finished on its value
PromiseOf(c) == fetches[calls[c].promise].promise
FinishedOnValue(c) ==
    /\ calls[c].pc = "done"
    /\ PromiseOf(c).status = "fulfilled"

\* C4: in a non-GET navigation every call of singleFetch makes its own
\* network call once createRequestInit has resolved (as many requests as
\* calls past that point, none shared, the cell singleFetchPromise unused),
\* passes init, and takes its outcome from the single result its own
\* request decoded.
C4_ActionCallsIndependent ==
    \A n \in ActionNavs :
        /\ navs[n].singleFetchPromise = 0
        /\ navs[n].assigned = 0
        /\ FetchesOf(n) = { c \in CallsOf(n) : calls[c].pc # "init" }
        /\ \A c \in FetchesOf(n) :
               /\ calls[c].promise = c
               /\ fetches[c].init.given
               /\ fetches[c].init.method = navs[n].request.method
               /\ FinishedOnValue(c) =>
                      LET result == fetches[c].promise.value
                      IN  /\ fetches[c].body.top = "result"
                          /\ DOMAIN result = DOMAIN fetches[c].body.value
                          /\ "error" \in DOMAIN result =>
                                 calls[c].outcome = Throw(result.error)
                          /\ DOMAIN result = {"data"} =>
                                 calls[c].outcome = Return(result.data)
                          /\ DOMAIN result = {} =>
                                 /\ calls[c].outcome.kind = "throw"
                                 /\ calls[c].outcome.error.routeId
                                        = calls[c].routeId

\* two calls of one action navigation have finished on the results of their
\* own requests, with different outcomes
C4_Witness ==
    \E n \in ActionNavs : \E c, d \in CallsOf(n) :
        /\ c # d
        /\ FinishedOnValue(c)
        /\ FinishedOnValue(d)
        /\ calls[c].outcome.kind = "return"
        /\ calls[d].outcome.kind = "throw"

\* C5: when the request of a GET navigation fails at the network level, it
\* stays the only request of the navigation and every call that has
\* finished, made before or after the failure, threw that failure.
C5_NetworkFailureNoRetry ==
    \A n \in GetNavs : \A f \in FetchesOf(n) :
        fetches[f].promise = Rejected(NetworkError) =>
            /\ FetchesOf(n) = {f}
            /\ \A c \in CallsOf(n) :
                   /\ calls[c].promise = f
                   /\ calls[c].pc = "done" =>
                          calls[c].outcome = Throw(NetworkError)

\* the request failed; a call made before and a call made after the failure
\* have both thrown it
C5_Witness ==
    \E n \in GetNavs : \E c, d \in CallsOf(n) :
        /\ PromiseOf(c) = Rejected(NetworkError)
        /\ ~ calls[c].late
        /\ calls[d].late
        /\ calls[c].outcome.kind = "throw"
        /\ calls[d].outcome.kind = "throw"

ProtocolError ==
    [type |-> "Error", message |-> "Expected a text/x-turbo response"]

\* the pieces of a Content-Type value; none when the header is absent
Pieces(contentType) ==
    { contentType.value[i] : i \in DOMAIN contentType.value }

\* C6: a response whose Content-Type is absent or lacks text/x-turbo is never
\* decoded; its request rejects with the protocol error and every finished
\* call that awaited it threw that error.
C6_ProtocolMismatch ==
    \A f \in DOMAIN fetches :
        (/\ fetches[f].res.received
         /\ "text/x-turbo" \notin Pieces(fetches[f].res.contentType)) =>
            /\ fetches[f].state = "settled"
            /\ fetches[f].body = NoBody
            /\ fetches[f].promise = Rejected(ProtocolError)
            /\ \A c \in DOMAIN calls :
                   (calls[c].promise = f /\ calls[c].pc = "done") =>
                       calls[c].outcome = Throw(ProtocolError)

\* a response with another Content-Type arrived and two calls threw
C6_Witness ==
    \E f \in DOMAIN fetches : \E c, d \in DOMAIN calls :
        /\ fetches[f].res.received
        /\ fetches[f].res.contentType.present
        /\ "text/x-turbo" \notin Pieces(fetches[f].res.contentType)
        /\ c # d
        /\ calls[c].promise = f
        /\ calls[d].promise = f
        /\ calls[c].outcome = Throw(ProtocolError)
        /\ calls[d].outcome = Throw(ProtocolError)

\* C7: in a GET navigation a call whose route has no entry in the decoded
\* map finishes with null, whatever entries the map has.
C7_MissingEntryIsNull ==
    \A n \in GetNavs : \A c \in CallsOf(n) :
        (FinishedOnValue(c)
            /\ calls[c].routeId \notin DOMAIN PromiseOf(c).value) =>
                calls[c].outcome = ReturnNull

\* a call finished on a map that has entries, but none for its route
C7_Witness ==
    \E n \in GetNavs : \E c \in CallsOf(n) :
        /\ FinishedOnValue(c)
        /\ DOMAIN PromiseOf(c).value # {}
        /\ calls[c].routeId \notin DOMAIN PromiseOf(c).value

ResultTags == {"data", "error", "redirect"}

\* C8: an action call whose decoded result has none of data, error and
\* redirect throws the error that names the route of that call.
C8_EmptyActionResult ==
    \A n \in ActionNavs : \A c \in CallsOf(n) :
        (FinishedOnValue(c)
            /\ DOMAIN PromiseOf(c).value \cap ResultTags = {}) =>
                /\ calls[c].outcome.kind = "throw"
                /\ calls[c].outcome.error.type = "Error"
                /\ calls[c].outcome.error.message
                       = "No action response found for routeId"
                /\ calls[c].outcome.error.routeId = calls[c].routeId

\* calls of both routes of an action navigation finished on empty results
C8_Witness ==
    \E n \in ActionNavs : \E c, d \in CallsOf(n) :
        /\ calls[c].routeId # calls[d].routeId
        /\ FinishedOnValue(c)
        /\ FinishedOnValue(d)
        /\ DOMAIN PromiseOf(c).value = {}
        /\ DOMAIN PromiseOf(d).value = {}

\* C9: in a GET navigation the outcome of a call depends on the entry of its
\* own route only: it throws the error of that entry if the entry is an
\* error, and otherwise yields the redirect or the data of that entry, or
\* null without one, whatever the entries of the other routes are and in
\* whatever order the calls were made.
C9_ErrorStaysWithItsRoute ==
    \A n \in GetNavs : \A c \in CallsOf(n) :
        FinishedOnValue(c) =>
            LET results == PromiseOf(c).value
                id == calls[c].routeId
            IN  IF id \notin DOMAIN results
                THEN calls[c].outcome = ReturnNull
                ELSE /\ "error" \in DOMAIN results[id] =>
                            calls[c].outcome = Throw(results[id].error)
                     /\ ("error" \notin DOMAIN results[id]
                            /\ "redirect" \in DOMAIN results[id]) =>
                            /\ calls[c].outcome.kind = "redirect"
                            /\ calls[c].outcome.location
                                   = results[id].redirect
                     /\ DOMAIN results[id] = {"data"} =>
                            calls[c].outcome = Return(results[id].data)

\* one response with an error for the root: the call of "routes/a", made
\* first, returned its data and the call of the root threw
C9_Witness ==
    \E n \in GetNavs : \E c, d \in CallsOf(n) :
        /\ c < d
        /\ calls[c].routeId = "routes/a"
        /\ calls[d].routeId = "root"
        /\ FinishedOnValue(c)
        /\ FinishedOnValue(d)
        /\ calls[c].outcome.kind = "return"
        /\ calls[d].outcome.kind = "throw"

\* the result, as sent, that a finished call unwrapped
WireResultOf(c) ==
    LET body == fetches[calls[c].promise].body
    IN  IF body.top = "results" THEN body.value[calls[c].routeId]
        ELSE body.value

HasWireResult(c) ==
    LET body == fetches[calls[c].promise].body
    IN  \/ body.top = "result"
        \/ body.top = "results" /\ calls[c].routeId \in DOMAIN body.value

\* C10: a call whose result is tagged error throws the error value as
\* decoded: a plain value unchanged, and a value the stream tags as
\* ErrorResponse as the response-shaped error with the same status, status
\* text and data, its internal flag set exactly when the field sent is true.
C10_ErrorValueRethrown ==
    \A c \in DOMAIN calls :
        (FinishedOnValue(c) /\ HasWireResult(c)
            /\ "error" \in DOMAIN WireResultOf(c)) =>
                LET sent == WireResultOf(c).error
                IN  IF sent.type = "ErrorResponse"
                    THEN calls[c].outcome = Throw(
                             [type |-> "ErrorResponseImpl",
                              status |-> sent.status,
                              statusText |-> sent.statusText,
                              data |-> sent.data,
                              internal |-> sent.internal = "true"])
                    ELSE calls[c].outcome = Throw(sent)

\* a call threw the error rebuilt from an ErrorResponse whose internal field
\* is truthy but not true
C10_Witness ==
    \E c \in DOMAIN calls :
        /\ FinishedOnValue(c)
        /\ HasWireResult(c)
        /\ "error" \in DOMAIN WireResultOf(c)
        /\ WireResultOf(c).error.type = "ErrorResponse"
        /\ WireResultOf(c).error.internal = "1"
        /\ calls[c].outcome.kind = "throw"
        /\ calls[c].outcome.error.type = "ErrorResponseImpl"

----------------------------------------------------------------------------
(***************************************************************************)
(* Redirect results: one navigation of at most two calls, answered with    *)
(* redirects of every combination of the two flags.                        *)
(***************************************************************************)
RedirectResults ==
    { RedirectResult("/login", status, revalidate, reload) :
          status \in {302, 303}, revalidate \in BOOLEAN, reload \in BOOLEAN }

RedirectBodies(n) ==
    IF navs[n].request.method = "GET"
    THEN { MapBody([id \in RouteIds |-> IF id = "root" THEN r1 ELSE r2]) :
               r1 \in RedirectResults, r2 \in RedirectResults }
    ELSE { ResultBody(r) : r \in RedirectResults }

NextRedirect ==
    \/ \E args \in NavArgs : navs = <<>> /\ DataStrategy(args)
    \/ \E n \in DOMAIN navs, routeId \in RouteIds :
           Len(calls) < 2 /\ SingleFetchLoader(n, routeId)
    \/ \E n \in DOMAIN navs, routeId \in RouteIds :
           Len(calls) < 2 /\ SingleFetchAction(n, routeId)
    \/ \E c \in DOMAIN calls : ActionFetch(c)
    \/ \E f \in DOMAIN fetches :
           \E body \in RedirectBodies(fetches[f].nav) :
               FetchResponds(f,
                   [contentType |-> Header(<<"text/x-turbo">>),
                    body |-> body])
    \/ \E f \in DOMAIN fetches : DecodeResolves(f)
    \/ \E c \in DOMAIN calls : Resume(c)

SpecRedirect == Init /\ [][NextRedirect]_vars

\* C11: a call whose result is tagged redirect returns a redirect with the
\* location and status sent, carrying X-Remix-Revalidate exactly when the
\* revalidate flag is set and X-Remix-Reload-Document exactly when the reload
\* flag is set, and no other header.
C11_RedirectSignals ==
    \A c \in DOMAIN calls :
        (FinishedOnValue(c) /\ HasWireResult(c)
            /\ "redirect" \in DOMAIN WireResultOf(c)
            /\ "error" \notin DOMAIN WireResultOf(c)) =>
                LET sent == WireResultOf(c)
                    out == calls[c].outcome
                IN  /\ out.kind = "redirect"
                    /\ out.location = sent.redirect
                    /\ out.status = sent.status
                    /\ ("X-Remix-Revalidate" \in out.headers)
                           <=> sent.revalidate
                    /\ ("X-Remix-Reload-Document" \in out.headers)
                           <=> sent.reload
                    /\ out.headers \subseteq
                           {"X-Remix-Revalidate", "X-Remix-Reload-Document"}

\* two calls returned redirects, one carrying only the revalidate signal and
\* one carrying only the reload signal
C11_Witness ==
    \E c, d \in DOMAIN calls :
        /\ FinishedOnValue(c)
        /\ FinishedOnValue(d)
        /\ WireResultOf(c).revalidate /\ ~ WireResultOf(c).reload
        /\ ~ WireResultOf(d).revalidate /\ WireResultOf(d).reload
        /\ calls[c].outcome.kind = "redirect"
        /\ calls[c].outcome.headers = {"X-Remix-Revalidate"}
        /\ calls[d].outcome.kind = "redirect"
        /\ calls[d].outcome.headers = {"X-Remix-Reload-Document"}

----------------------------------------------------------------------------
(***************************************************************************)
(* URL building: one navigation of at most two calls, over three routes    *)
(* and a range of request URLs, manifests, route modules and matches.      *)
(* Only the steps up to the network call are taken.                        *)
(***************************************************************************)
UrlRouteIds == {"root", "routes/a", "routes/b"}

UrlManifests == [UrlRouteIds -> [hasLoader : BOOLEAN]]

\* all three modules loaded, with hooks on some; or "root" not loaded
UrlRouteModuleSets ==
    { [id \in UrlRouteIds |-> [shouldRevalidate |-> id \in hooks]] :
          hooks \in { {}, {"root"}, {"routes/b"}, {"routes/a", "routes/b"} } }
        \cup { [id \in {"routes/a", "routes/b"} |->
                   [shouldRevalidate |-> id = "routes/a"]] }

UrlQueries ==
    { <<>>,
      <<Param("index", "", FALSE)>>,
      <<Param("index", "", TRUE), Param("index", "abc", TRUE)>>,
      <<Param("q", "", FALSE), Param("index", "b", TRUE),
        Param("index", "", FALSE), Param("index", "a", TRUE)>>,
      <<Param("_routes", "root", TRUE)>>,
      <<Param("_routes", "x", TRUE), Param("q", "1", TRUE),
        Param("_routes", "y", TRUE)>> }

UrlNavUrls == { Url(pathname, query) :
                    pathname \in {"/", "/a"}, query \in UrlQueries }

UrlMatchLists ==
    { <<Match("root", l[1]), Match("routes/a", l[2]), Match("routes/b", l[3])>> :
          l \in [1..3 -> BOOLEAN] }
        \cup { <<Match("root", l[1]), Match("routes/a", l[2])>> :
                   l \in [1..2 -> BOOLEAN] }

UrlNavArgs ==
    [request : [method : {"GET", "POST"}, url : UrlNavUrls],
     matches : UrlMatchLists]

InitUrl ==
    /\ manifest \in UrlManifests
    /\ routeModules \in UrlRouteModuleSets
    /\ navs = <<>>
    /\ calls = <<>>
    /\ fetches = [c \in {} |-> NewFetch(0, Url("/", <<>>), NoInit)]
    /\ worker = <<>>

NextUrl ==
    \/ \E args \in UrlNavArgs : navs = <<>> /\ DataStrategy(args)
    \/ \E n \in DOMAIN navs, routeId \in UrlRouteIds :
           Len(calls) < 2 /\ SingleFetchLoader(n, routeId)
    \/ \E n \in DOMAIN navs, routeId \in UrlRouteIds :
           Len(calls) < 2 /\ SingleFetchAction(n, routeId)
    \/ \E c \in DOMAIN calls : ActionFetch(c)

SpecUrl == InitUrl /\ [][NextUrl]_vars

\* the names of the query parameters of a URL, and its _routes parameters
ParamNames(url) == { url.query[i].name : i \in DOMAIN url.query }
ScopeParams(url) == SelectSeq(url.query, LAMBDA p : p.name = "_routes")

\* some matched route of navigation n has a loaded module with the hook
HookDeclared(n) ==
    \E i \in DOMAIN navs[n].matches :
        /\ navs[n].matches[i].id \in DOMAIN routeModules
        /\ routeModules[navs[n].matches[i].id].shouldRevalidate

\* the matches of navigation n with a loader, and those of them to load
WithLoader(n) ==
    SelectSeq(navs[n].matches, LAMBDA m : manifest[m.id].hasLoader)
ToLoad(n) ==
    SelectSeq(navs[n].matches,
              LAMBDA m : m.shouldLoad /\ manifest[m.id].hasLoader)

IdsOf(ms) == [i \in DOMAIN ms |-> ms[i].id]
IdSet(ms) == { ms[i].id : i \in DOMAIN ms }

\* C12: without a shouldRevalidate hook on any matched route, the URL of the
\* consolidated GET request has no _routes parameter, whatever the request
\* URL and the flags are.
C12_NoHookNoScope ==
    \A n \in GetNavs : \A f \in FetchesOf(n) :
        ~ HookDeclared(n) => "_routes" \notin ParamNames(fetches[f].url)

\* C13: with a hook on some matched route, the _routes parameter is absent
\* when the matched routes with a loader are the routes to load with a
\* loader, and otherwise is the one parameter whose value is the ids of the
\* routes to load with a loader, comma-joined in match order.
C13_ScopeIsLoadIds ==
    \A n \in GetNavs : \A f \in FetchesOf(n) :
        HookDeclared(n) =>
            IF IdSet(WithLoader(n)) = IdSet(ToLoad(n))
            THEN "_routes" \notin ParamNames(fetches[f].url)
            ELSE ScopeParams(fetches[f].url)
                     = <<Param("_routes", Join(IdsOf(ToLoad(n))), TRUE)>>

\* the request URL of navigation n has no _routes parameter of its own
RequestUnscoped(n) == "_routes" \notin ParamNames(navs[n].request.url)

\* the two statements above for request URLs without a _routes parameter
ScopeAbsentWithoutHook ==
    \A n \in GetNavs : \A f \in FetchesOf(n) :
        (RequestUnscoped(n) /\ ~ HookDeclared(n)) =>
            "_routes" \notin ParamNames(fetches[f].url)

ScopeFollowsLoadIds ==
    \A n \in GetNavs : \A f \in FetchesOf(n) :
        (RequestUnscoped(n) /\ HookDeclared(n)) =>
            IF IdSet(WithLoader(n)) = IdSet(ToLoad(n))
            THEN "_routes" \notin ParamNames(fetches[f].url)
            ELSE ScopeParams(fetches[f].url)
                     = <<Param("_routes", Join(IdsOf(ToLoad(n))), TRUE)>>

----------------------------------------------------------------------------
\* the URL singleFetchUrl is applied to in navigation n: the request URL,
\* after stripIndexParam and addRevalidationParam when the request is a GET
TransformInput(n) ==
    IF navs[n].request.method = "GET"
    THEN addRevalidationParam(manifest, routeModules, navs[n].matches,
                              stripIndexParam(navs[n].request.url))
    ELSE navs[n].request.url

\* C14: the path of the URL fetched is /_root.data when the path of the
\* request URL is /, and that path followed by .data otherwise; the origin
\* and the query are those of the URL the transform was applied to.
C14_PathTransform ==
    \A f \in DOMAIN fetches :
        LET n == fetches[f].nav
            path == navs[n].request.url.pathname
        IN  /\ fetches[f].url.pathname =
                   IF path = "/" THEN "/_root.data" ELSE path \o ".data"
            /\ fetches[f].url.origin = navs[n].request.url.origin
            /\ fetches[f].url.query = TransformInput(n).query

\* a request for the root path that carries a query was made
C14_Witness ==
    \E f \in DOMAIN fetches :
        /\ navs[fetches[f].nav].request.url.pathname = "/"
        /\ fetches[f].url.pathname = "/_root.data"
        /\ fetches[f].url.query # <<>>

\* the values of the index parameters of a raw query, and the non-empty ones
IndexValues(url) ==
    LET sel == SelectSeq(url.query, LAMBDA p : p.name = "index")
    IN  [i \in DOMAIN sel |-> sel[i].value]
NonEmpty(values) == SelectSeq(values, LAMBDA v : v # "")

\* C15: in a GET navigation the index parameters of the URL fetched are the
\* non-empty index values of the request URL in their order, none of them
\* empty; stripIndexParam applied twice gives what it gives applied once.
C15_IndexNormalised ==
    \A n \in GetNavs :
        /\ \A f \in FetchesOf(n) :
               /\ IndexValues(fetches[f].url)
                      = NonEmpty(IndexValues(navs[n].request.url))
               /\ \A i \in DOMAIN fetches[f].url.query :
                      fetches[f].url.query[i].name = "index" =>
                          fetches[f].url.query[i].value # ""
        /\ stripIndexParam(stripIndexParam(navs[n].request.url))
               = stripIndexParam(navs[n].request.url)

\* a request was made for ?q&index=b&index&index=a, with index=b and index=a
C15_Witness ==
    \E n \in GetNavs : \E f \in FetchesOf(n) :
        /\ IndexValues(navs[n].request.url) = <<"b", "", "a">>
        /\ IndexValues(fetches[f].url) = <<"b", "a">>

\* the routes that have called singleFetch in navigation n
Callers(n) == { calls[c].routeId : c \in CallsOf(n) }

\* the URL of the consolidated request, from the request URL, the flags of
\* the matches, the manifest and the route modules
UrlOfNavigation(n) ==
    LET stripped == stripIndexParam(navs[n].request.url)
        hinted ==
            IF HookDeclared(n)
                   /\ Join(IdsOf(WithLoader(n))) # Join(IdsOf(ToLoad(n)))
            THEN WithSearchParams(stripped,
                     set(searchParams(stripped), "_routes",
                         Join(IdsOf(ToLoad(n)))))
            ELSE stripped
    IN  [hinted EXCEPT !.pathname =
            IF @ = "/" THEN "/_root.data" ELSE @ \o ".data"]

\* C17: the URL of the consolidated GET request is determined by the request
\* URL and the flags of the matches, whichever routes have called singleFetch
\* and in whichever order; when a hint is sent it names every route to load
\* that has a loader, the ones that have not called included.
C17_UrlIgnoresCallers ==
    \A n \in GetNavs : \A f \in FetchesOf(n) :
        /\ fetches[f].url = UrlOfNavigation(n)
        /\ (HookDeclared(n) /\ IdSet(WithLoader(n)) # IdSet(ToLoad(n))) =>
               ScopeParams(fetches[f].url)
                   = <<Param("_routes", Join(IdsOf(ToLoad(n))), TRUE)>>

\* the hint names routes/a, which is to load and has a loader, and the only
\* route that has called, twice, is routes/b, which is not to load
C17_Witness ==
    \E n \in GetNavs : \E f \in FetchesOf(n) :
        /\ Cardinality(CallsOf(n)) = 2
        /\ Callers(n) = {"routes/b"}
        /\ "routes/b" \notin IdSet(ToLoad(n))
        /\ "routes/a" \in IdSet(ToLoad(n))
        /\ ScopeParams(fetches[f].url)
               = <<Param("_routes", Join(IdsOf(ToLoad(n))), TRUE)>>

\* C18: the URL of a non-GET request is the request URL with the path
\* transformed: the query is the raw query of the request URL, empty index
\* entries and all, with no _routes parameter added, whatever the flags and
\* the hooks are.
C18_ActionUrlUntouched ==
    \A n \in ActionNavs : \A f \in FetchesOf(n) :
        /\ fetches[f].url.query = navs[n].request.url.query
        /\ fetches[f].url.origin = navs[n].request.url.origin
        /\ ParamNames(fetches[f].url) = ParamNames(navs[n].request.url)

\* a submission to ?index&index=... with a hook declared and a route not to
\* load has made its request, the empty index entry still in the query
C18_Witness ==
    \E n \in ActionNavs : \E f \in FetchesOf(n) :
        /\ HookDeclared(n)
        /\ IdSet(WithLoader(n)) # IdSet(ToLoad(n))
        /\ "" \in { IndexValues(fetches[f].url)[i] :
                       i \in DOMAIN IndexValues(fetches[f].url) }
        /\ "_routes" \notin ParamNames(fetches[f].url)

----------------------------------------------------------------------------
(***************************************************************************)
(* A navigation superseded while its request is in flight: two GET         *)
(* navigations, each with the closure its invocation of the data strategy  *)
(* created.                                                                *)
(***************************************************************************)
GetNavArgs == { args \in NavArgs : args.request.method = "GET" }

\* the arguments of the later navigation
LaterNavArgs ==
    { [request |-> Request("GET", Url("/a", <<Param("q", "2", TRUE)>>)),
       matches |-> <<Match("root", TRUE), Match("routes/a", TRUE)>>] }

\* the request of navigation n is in flight
InFlight(n) ==
    \E f \in FetchesOf(n) : fetches[f].state \in {"fetching", "decoding"}

\* the router invokes the data strategy for a later navigation while the
\* request of the first is in flight: another closure, with its own
\* singleFetchPromise; the request of the first is not cancelled
Supersede(args) ==
    /\ Len(navs) = 1
    /\ InFlight(1)
    /\ navs' = Append(navs, [request |-> args.request,
                             matches |-> args.matches,
                             singleFetchPromise |-> 0, assigned |-> 0])
    /\ UNCHANGED <<worker, manifest, routeModules, calls, fetches>>

NextSupersede ==
    \/ \E args \in GetNavArgs : navs = <<>> /\ DataStrategy(args)
    \/ \E args \in LaterNavArgs : Supersede(args)
    \/ \E n \in DOMAIN navs, routeId \in RouteIds :
           SingleFetchLoader(n, routeId)
    \/ \E f \in DOMAIN fetches : FetchFails(f)
    \/ \E f \in DOMAIN fetches, ct \in ContentTypes :
           \E body \in Bodies(fetches[f].nav) :
               FetchResponds(f, [contentType |-> ct, body |-> body])
    \/ \E f \in DOMAIN fetches : DecodeResolves(f)
    \/ \E f \in DOMAIN fetches : DecodeRejects(f)
    \/ \E c \in DOMAIN calls : Resume(c)

SpecSupersede == Init /\ [][NextSupersede]_vars

\* C16: with a navigation superseded while its request is in flight, the
\* later navigation makes a request of its own, for its own URL, and every
\* call awaits the promise of the request of its own navigation and takes
\* its outcome from that promise, never from the request of the other
\* navigation, in whichever order the two responses arrive.
C16_ScopedToNavigation ==
    \A c \in DOMAIN calls :
        LET n == calls[c].nav
        IN  /\ calls[c].promise \in FetchesOf(n)
            /\ calls[c].promise = navs[n].singleFetchPromise
            /\ Cardinality(FetchesOf(n)) = 1
            /\ fetches[calls[c].promise].url = LoaderUrl(navs[n])
            /\ calls[c].pc = "done" =>
                   LET own == fetches[navs[n].singleFetchPromise].promise
                   IN  /\ Settled(own)
                       /\ calls[c].outcome = Outcome(calls[c], own)

\* the later navigation has a call that finished on the value of its own
\* request while the call of the superseded navigation is still waiting; the
\* response of the superseded request has arrived too, with another value
C16_Witness ==
    /\ Len(navs) = 2
    /\ \E c \in CallsOf(1), d \in CallsOf(2) :
           /\ calls[c].pc = "await"
           /\ FinishedOnValue(d)
           /\ PromiseOf(c).status = "fulfilled"
           /\ PromiseOf(c).value # PromiseOf(d).value
           /\ calls[d].outcome # Outcome(calls[d], PromiseOf(c))

----------------------------------------------------------------------------
(***************************************************************************)
(* Progress of a GET navigation: the request and the decode settle, and a  *)
(* continuation waiting on a settled promise is run by the job queue.      *)
(***************************************************************************)
FetchSettles ==
    \/ \E f \in DOMAIN fetches : FetchFails(f)
    \/ \E f \in DOMAIN fetches, ct \in ContentTypes :
           \E body \in Bodies(fetches[f].nav) :
               FetchResponds(f, [contentType |-> ct, body |-> body])

DecodeSettles ==
    \/ \E f \in DOMAIN fetches : DecodeResolves(f)
    \/ \E f \in DOMAIN fetches : DecodeRejects(f)

Continues == \E c \in DOMAIN calls : Resume(c)

NextLoader ==
    \/ \E args \in GetNavArgs : navs = <<>> /\ DataStrategy(args)
    \/ \E n \in DOMAIN navs, routeId \in RouteIds :
           SingleFetchLoader(n, routeId)
    \/ FetchSettles
    \/ DecodeSettles
    \/ Continues

SpecLoaderFair ==
    /\ Init
    /\ [][NextLoader]_vars
    /\ WF_vars(FetchSettles)
    /\ WF_vars(DecodeSettles)
    /\ WF_vars(Continues)

\* the outcomes a finished call can have
OutcomeKinds == {"return", "null", "redirect", "throw"}

\* a finished call keeps the outcome it finished with
OutcomeKept ==
    \A c \in DOMAIN calls :
        calls[c].pc = "done" => calls'[c] = calls[c]

\* C19: in a GET navigation whose request and decode settle, every call of
\* singleFetch that was started finishes, whether it was made before or after
\* the promise settled; a finished call has one outcome, a value, null, a
\* redirect or a thrown error, and keeps it.
C19_EveryCallCompletes ==
    /\ \A c \in 1..MaxCalls :
           (c \in DOMAIN calls) ~> (c \in DOMAIN calls /\ calls[c].pc = "done")
    /\ [](\A c \in DOMAIN calls :
              (calls[c].pc = "done") <=> (calls[c].outcome.kind \in OutcomeKinds))
    /\ [][OutcomeKept]_vars

\* a call made before the promise settled has thrown and a call made after
\* it settled has returned
C19_Witness ==
    \E c, d \in DOMAIN calls :
        /\ ~ calls[c].late
        /\ calls[d].late
        /\ calls[c].pc = "done"
        /\ calls[d].pc = "done"
        /\ calls[c].outcome.kind = "throw"
        /\ calls[d].outcome.kind \in {"return", "null", "redirect"}

----------------------------------------------------------------------------
(***************************************************************************)
(* The Cloudflare worker (templates/cloudflare-workers/server.ts): the     *)
(* fetch handler, with its suspension points at await getAssetFromKV and   *)
(* at await handleRemixRequest.                                            *)
(***************************************************************************)
\* String.prototype.startsWith
startsWith(text, prefix) ==
    /\ Len(text) >= Len(prefix)
    /\ SubSeq(text, 1, Len(prefix)) = prefix

YearTTL == 60 * 60 * 24 * 365
ShortTTL == 60 * 5

\* the ttl of an asset
ttl(url) == IF startsWith(url.pathname, "/build/") THEN YearTTL ELSE ShortTTL

\* the paths of the requests to the worker
WorkerPaths == {"/build/root-4f2a.js", "/builds", "/favicon.ico", "/a"}

WorkerRequests == { Request("GET", Url(path, <<>>)) : path \in WorkerPaths }

\* what the promise of fetch(request, env, ctx) has come to
FetchPending == [kind |-> "pending"]
FetchResolved(response) == [kind |-> "resolved", response |-> response]
FetchRejected(error) == [kind |-> "rejected", error |-> error]

\* responses: an asset served from KV, a response of the Remix handler, and
\* the response of line 51
AssetResponse(path, maxAge) ==
    [from |-> "asset", status |-> 200, path |-> path, maxAge |-> maxAge]
HandlerResponse(status) == [from |-> "remix", status |-> status]
UnexpectedErrorResponse ==
    [from |-> "worker", status |-> 500,
     body |-> "An unexpected error occurred"]

\* the errors getAssetFromKV rejects with, the responses handleRemixRequest
\* resolves to and the errors it rejects with
AssetErrors == {"NotFoundError", "MethodNotAllowedError", "InternalError"}
HandlerStatuses == {200, 404, 500}
HandlerErrors == {"Error", "TypeError"}

NotCalled == [kind |-> "none"]
Awaited == [kind |-> "pending"]
Resolved(response) == [kind |-> "resolved", response |-> response]
Threw(error) == [kind |-> "rejected", error |-> error]

\* fetch(request, env, ctx) is invoked: lines 23-41 up to
\* await getAssetFromKV(...)
WorkerFetch(request) ==
    /\ Len(worker) < MaxRequests
    /\ worker' = Append(worker,
           [request |-> request,
            pc |-> "asset",
            cacheControl |-> [browserTTL |-> ttl(request.url),
                              edgeTTL |-> ttl(request.url)],
            asset |-> Awaited,
            handler |-> NotCalled,
            handlerCalls |-> 0,
            logged |-> <<>>,
            result |-> FetchPending])
    /\ UNCHANGED <<manifest, routeModules, navs, calls, fetches>>

\* getAssetFromKV resolves: the asset is returned
AssetFound(i) ==
    /\ worker[i].pc = "asset"
    /\ LET response == AssetResponse(worker[i].request.url.pathname,
                                     worker[i].cacheControl.browserTTL)
       IN  worker' = [worker EXCEPT
               ![i].pc = "done",
               ![i].asset = Resolved(response),
               ![i].result = FetchResolved(response)]
    /\ UNCHANGED <<manifest, routeModules, navs, calls, fetches>>

\* getAssetFromKV rejects: the empty catch of line 42, then lines 44-48 up to
\* await handleRemixRequest(request, loadContext)
AssetFails(i, error) ==
    /\ worker[i].pc = "asset"
    /\ worker' = [worker EXCEPT
           ![i].pc = "handler",
           ![i].asset = Threw(error),
           ![i].handler = Awaited,
           ![i].handlerCalls = @ + 1]
    /\ UNCHANGED <<manifest, routeModules, navs, calls, fetches>>

\* handleRemixRequest resolves: its response is returned
HandlerResolves(i, response) ==
    /\ worker[i].pc = "handler"
    /\ worker' = [worker EXCEPT
           ![i].pc = "done",
           ![i].handler = Resolved(response),
           ![i].result = FetchResolved(response)]
    /\ UNCHANGED <<manifest, routeModules, navs, calls, fetches>>

\* variant: the error of handleRemixRequest is not caught
HandlerRejectsUncaught(i, error) ==
    /\ worker[i].pc = "handler"
    /\ worker' = [worker EXCEPT
           ![i].pc = "done",
           ![i].handler = Threw(error),
           ![i].result = FetchRejected(error)]
    /\ UNCHANGED <<manifest, routeModules, navs, calls, fetches>>

\* handleRemixRequest rejects: the catch of lines 49-52
HandlerRejects(i, error) ==
    /\ worker[i].pc = "handler"
    /\ worker' = [worker EXCEPT
           ![i].pc = "done",
           ![i].handler = Threw(error),
           ![i].logged = Append(@, error),
           ![i].result = FetchResolved(UnexpectedErrorResponse)]
    /\ UNCHANGED <<manifest, routeModules, navs, calls, fetches>>

NextWorker ==
    \/ \E request \in WorkerRequests : WorkerFetch(request)
    \/ \E i \in DOMAIN worker : AssetFound(i)
    \/ \E i \in DOMAIN worker, error \in AssetErrors : AssetFails(i, error)
    \/ \E i \in DOMAIN worker, status \in HandlerStatuses :
           HandlerResolves(i, HandlerResponse(status))
    \/ \E i \in DOMAIN worker, error \in HandlerErrors :
           HandlerRejects(i, error)

SpecWorker == Init /\ [][NextWorker]_vars

\* C20: the promise of the worker's fetch never rejects and a finished
\* invocation has resolved to a response: the asset when getAssetFromKV
\* resolved, with the Remix handler never called; and when getAssetFromKV
\* rejected, whatever the error, the Remix handler was called once and the
\* response is the one it resolved to, or the response with status 500 when
\* it threw.
C20_WorkerAlwaysResponds ==
    \A i \in DOMAIN worker :
        LET w == worker[i]
        IN  /\ w.result.kind # "rejected"
            /\ (w.pc = "done") <=> (w.result.kind = "resolved")
            /\ w.handlerCalls = IF w.asset.kind = "rejected" THEN 1 ELSE 0
            /\ w.pc = "done" =>
                   CASE w.asset.kind = "resolved" ->
                            /\ w.result.response = w.asset.response
                            /\ w.result.response.from = "asset"
                            /\ w.handler = NotCalled
                     [] w.handler.kind = "resolved" ->
                            /\ w.asset.kind = "rejected"
                            /\ w.result.response = w.handler.response
                     [] w.handler.kind = "rejected" ->
                            /\ w.asset.kind = "rejected"
                            /\ w.result.response.status = 500
                            /\ w.result.response.from = "worker"
                     [] OTHER -> FALSE

\* one invocation served the asset, another fell through to the Remix
\* handler, which threw, and answered with status 500
C20_Witness ==
    \E i, j \in DOMAIN worker :
        /\ worker[i].pc = "done"
        /\ worker[i].asset.kind = "resolved"
        /\ worker[i].result.response.maxAge = YearTTL
        /\ worker[j].pc = "done"
        /\ worker[j].asset.kind = "rejected"
        /\ worker[j].handler.kind = "rejected"
        /\ worker[j].handlerCalls = 1
        /\ worker[j].result = FetchResolved(UnexpectedErrorResponse)

====
